---- MODULE Spec2Model ----
(***************************************************************************)
(* logical-config: the path-object parser (parsePathObject), the           *)
(* resolution engine (pathObjectExpressesSymbol, tryMakeReferenceable)     *)
(* and the tree walker (fill) of src/logical-config.js.                    *)
(*                                                                         *)
(* A JavaScript string is a sequence of lexemes: one-character strings     *)
(* ("{", ";", "1", ...) and alphabetic words ("true", "path", "f", ...)    *)
(* that contain none of the characters the code looks at.                  *)
(* A JavaScript value is a pair <<tag, payload>>.                          *)
(***************************************************************************)
EXTENDS Integers, Sequences, FiniteSets, TLC

(***************************************************************************)
(* JavaScript values                                                       *)
(***************************************************************************)
Undef == <<"undefined", 0>>
Null == <<"null", 0>>
NaN == <<"nan", 0>>
Num(n) == <<"num", n>>
Bool(b) == <<"bool", b>>
Str(s) == <<"str", s>>
Arr(es) == <<"arr", es>>
Obj(entries) == <<"obj", entries>>
Fn(name, props, length) == <<"fn", [name |-> name, props |-> props, length |-> length]>>

Tag(v) == v[1]
Pay(v) == v[2]

\* typeof v
TypeOf(v) ==
    CASE Tag(v) = "undefined" -> "undefined"
      [] Tag(v) \in {"num", "nan", "numlit"} -> "number"
      [] Tag(v) = "bool" -> "boolean"
      [] Tag(v) = "str" -> "string"
      [] Tag(v) = "fn" -> "function"
      [] OTHER -> "object"

\* ToBoolean(v)
Truthy(v) ==
    CASE Tag(v) \in {"undefined", "null", "nan"} -> FALSE
      [] Tag(v) = "num" -> Pay(v) # 0
      [] Tag(v) = "bool" -> Pay(v)
      [] Tag(v) = "str" -> Pay(v) # <<>>
      [] OTHER -> TRUE

\* Array.isArray(v)
IsArray(v) == Tag(v) = "arr"

DigitChars == <<"0", "1", "2", "3", "4", "5", "6", "7", "8", "9">>
Digits == {DigitChars[i] : i \in 1..Len(DigitChars)}
DigitOf(c) == (CHOOSE i \in 1..Len(DigitChars) : DigitChars[i] = c) - 1

\* the number a run of decimal digits denotes
RECURSIVE DigitsValue(_)
DigitsValue(s) ==
    IF s = <<>> THEN 0
    ELSE 10 * DigitsValue(SubSeq(s, 1, Len(s) - 1)) + DigitOf(s[Len(s)])

\* String(i) for an array index i
RECURSIVE IndexKey(_)
IndexKey(i) ==
    IF i < 10 THEN <<DigitChars[i + 1]>>
    ELSE IndexKey(i \div 10) \o <<DigitChars[(i % 10) + 1]>>

\* k is the canonical decimal form of an array index
IsIndexKey(k) ==
    /\ k # <<>>
    /\ \A i \in 1..Len(k) : k[i] \in Digits
    /\ (Len(k) = 1 \/ k[1] # "0")

\* the position of own key k in the entries of an object, 0 if absent
KeyPos(entries, k) ==
    IF \E i \in 1..Len(entries) : entries[i][1] = k
    THEN CHOOSE i \in 1..Len(entries) : entries[i][1] = k
    ELSE 0

\* v[k], the property read of JavaScript on the values of the model (own
\* keys of objects, elements of arrays, characters of strings)
Get(v, k) ==
    CASE Tag(v) = "obj" ->
            IF KeyPos(Pay(v), k) = 0 THEN Undef ELSE Pay(v)[KeyPos(Pay(v), k)][2]
      [] Tag(v) = "arr" ->
            IF IsIndexKey(k) /\ DigitsValue(k) < Len(Pay(v))
            THEN Pay(v)[DigitsValue(k) + 1] ELSE Undef
      [] Tag(v) = "str" ->
            IF IsIndexKey(k) /\ DigitsValue(k) < Len(Pay(v))
            THEN Str(<<Pay(v)[DigitsValue(k) + 1]>>) ELSE Undef
      [] OTHER -> Undef

\* obj[k] = x on an object: an own key keeps its place, a new one is appended
SetKey(v, k, x) ==
    IF KeyPos(Pay(v), k) = 0
    THEN Obj(Append(Pay(v), <<k, x>>))
    ELSE Obj([Pay(v) EXCEPT ![KeyPos(Pay(v), k)] = <<k, x>>])

(***************************************************************************)
(* Strings                                                                 *)
(***************************************************************************)
\* the index of the first sep in s at or after position i, 0 if none
RECURSIVE IndexFrom(_, _, _)
IndexFrom(s, sep, i) ==
    IF i > Len(s) THEN 0
    ELSE IF s[i] = sep THEN i
    ELSE IndexFrom(s, sep, i + 1)

\* s.split(sep)
RECURSIVE Split(_, _)
Split(s, sep) ==
    IF IndexFrom(s, sep, 1) = 0 THEN <<s>>
    ELSE <<SubSeq(s, 1, IndexFrom(s, sep, 1) - 1)>>
         \o Split(SubSeq(s, IndexFrom(s, sep, 1) + 1, Len(s)), sep)

\* parts.join(sep)
RECURSIVE Join(_, _)
Join(parts, sep) ==
    IF parts = <<>> THEN <<>>
    ELSE IF Len(parts) = 1 THEN parts[1]
    ELSE parts[1] \o <<sep>> \o Join(Tail(parts), sep)

(***************************************************************************)
(* JSON.parse on the lexemes of the model: arrays, the empty object,       *)
(* decimal numbers, true, false and quoted strings.  A parse result is     *)
(* <<ok, value, next position>>.                                           *)
(***************************************************************************)
JFail == <<FALSE, Undef, 0>>

\* the end of the run of digits that starts at position i (i - 1 if none)
RECURSIVE DigitRunEnd(_, _)
DigitRunEnd(s, i) ==
    IF i <= Len(s) /\ s[i] \in Digits THEN DigitRunEnd(s, i + 1) ELSE i - 1

JNumber(s, i) ==
    LET e == DigitRunEnd(s, i)
        f == DigitRunEnd(s, e + 2)
    IN  IF e > i /\ s[i] = "0" THEN JFail
        ELSE IF e + 1 <= Len(s) /\ s[e + 1] = "."
        THEN IF f >= e + 2 THEN <<TRUE, <<"numlit", SubSeq(s, i, f)>>, f + 1>> ELSE JFail
        ELSE <<TRUE, Num(DigitsValue(SubSeq(s, i, e))), e + 1>>

JString(s, i) ==
    LET q == IndexFrom(s, "\"", i + 1)
    IN  IF q = 0 THEN JFail ELSE <<TRUE, Str(SubSeq(s, i + 1, q - 1)), q + 1>>

RECURSIVE JValue(_, _), JElems(_, _, _)
JValue(s, i) ==
    IF i > Len(s) THEN JFail
    ELSE CASE s[i] = "[" ->
                IF i + 1 <= Len(s) /\ s[i + 1] = "]" THEN <<TRUE, Arr(<<>>), i + 2>>
                ELSE JElems(s, i + 1, <<>>)
           [] s[i] = "{" ->
                IF i + 1 <= Len(s) /\ s[i + 1] = "}" THEN <<TRUE, Obj(<<>>), i + 2>>
                ELSE JFail
           [] s[i] = "true" -> <<TRUE, Bool(TRUE), i + 1>>
           [] s[i] = "false" -> <<TRUE, Bool(FALSE), i + 1>>
           [] s[i] = "\"" -> JString(s, i)
           [] s[i] \in Digits -> JNumber(s, i)
           [] OTHER -> JFail

\* the elements of an array from position i on, acc the elements read so far
JElems(s, i, acc) ==
    LET r == JValue(s, i)
    IN  IF ~r[1] \/ r[3] > Len(s) THEN JFail
        ELSE IF s[r[3]] = "]" THEN <<TRUE, Arr(Append(acc, r[2])), r[3] + 1>>
        ELSE IF s[r[3]] = "," THEN JElems(s, r[3] + 1, Append(acc, r[2]))
        ELSE JFail

\* JSON.parse(s): <<ok, value>>, ok false when it throws a SyntaxError
JSONParse(s) ==
    LET r == JValue(s, 1)
    IN  IF r[1] /\ r[3] = Len(s) + 1 THEN <<TRUE, r[2]>> ELSE <<FALSE, Undef>>

(***************************************************************************)
(* src/logical-config.js                                                   *)
(***************************************************************************)
\* const isCallable = item => typeof item === 'function'
isCallable(item) == TypeOf(item) = "function"

\* isFunction without the test for an own 'arguments' property
isFunction_PrototypeOnly(item) == "prototype" \notin Pay(item).props

\* isFunction: by the own property names of the callable
isFunction(item) ==
    "prototype" \notin Pay(item).props \/ "arguments" \in Pay(item).props

\* tryResolveDotPath: reduce over dotPath.split('.') with a ? a[b] : undefined
RECURSIVE ReducePath(_, _)
ReducePath(segs, a) ==
    IF segs = <<>> THEN a
    ELSE ReducePath(Tail(segs), IF Truthy(a) THEN Get(a, segs[1]) ELSE Undef)

\* tryResolveDotPath with a falsy value at the end of the path taken as missing
tryResolveDotPath_FalsyMissing(dotPath, obj) ==
    IF TypeOf(dotPath) = "string" /\ Truthy(ReducePath(Split(Pay(dotPath), "."), obj))
    THEN ReducePath(Split(Pay(dotPath), "."), obj) ELSE Undef

tryResolveDotPath(dotPath, obj) ==
    IF TypeOf(dotPath) = "string" THEN ReducePath(Split(Pay(dotPath), "."), obj) ELSE Undef

\* s matches (|;|;\[[^\n]*\])
MatchParams(s) ==
    \/ s = <<>>
    \/ s = <<";">>
    \/ /\ Len(s) >= 3
       /\ s[1] = ";" /\ s[2] = "[" /\ s[Len(s)] = "]"
       /\ \A i \in 3..(Len(s) - 1) : s[i] # "\n"

\* s matches (|;|;(true|false))
MatchCall(s) == s \in {<<>>, <<";">>, <<";", "true">>, <<";", "false">>}

\* isShortHand: /^\{[^;\n]{1,}(|;|;\[[^\n]*\])(|;|;(true|false))\}$/.test(obj)
isShortHand(obj) ==
    /\ TypeOf(obj) = "string"
    /\ LET s == Pay(obj)
           n == Len(s)
       IN  /\ n >= 3
           /\ s[1] = "{" /\ s[n] = "}"
           /\ \E i \in 2..(n - 1) : \E j \in i..(n - 1) :
                 /\ \A p \in 2..i : s[p] \notin {";", "\n"}
                 /\ MatchParams(SubSeq(s, i + 1, j))
                 /\ MatchCall(SubSeq(s, j + 1, n - 1))

PATH == <<"path">>
PARAMETERS == <<"parameters">>
CALL == <<"call">>
SUPPORTSNESTED == <<"supportsNested">>

\* isValidPathObject, as the truth value its callers test
isValidPathObject(obj) ==
    /\ Truthy(obj)
    /\ Truthy(Get(obj, PATH))
    /\ TypeOf(Get(obj, PATH)) = "string"
    /\ (TypeOf(Get(obj, CALL)) = "boolean" \/ Tag(Get(obj, CALL)) \in {"undefined", "null"})
    /\ ((TypeOf(Get(obj, PARAMETERS)) = "object" /\ IsArray(Get(obj, PARAMETERS)))
        \/ Tag(Get(obj, PARAMETERS)) = "undefined")

\* the element i of elems after destructuring: undefined past the end
Elem(elems, i) == IF i <= Len(elems) THEN Str(elems[i]) ELSE Undef

\* parsePathObject that returns a valid path object untagged, without
\* supportsNested
parsePathObject_Untagged(obj) ==
    IF isValidPathObject(obj) THEN [err |-> "none", val |-> obj]
    ELSE IF isShortHand(obj)
    THEN LET elems == Split(SubSeq(Pay(obj), 2, Len(Pay(obj)) - 1), ";")
             params == Elem(elems, 2)
             call == Elem(elems, 3)
             decode == Truthy(params) /\ Len(Pay(params)) > 0
             json == JSONParse(Pay(params))
         IN  IF decode /\ ~json[1]
             THEN [err |-> "syntax", val |-> Undef]
             ELSE [err |-> "none",
                   val |-> Obj(<< <<PATH, Elem(elems, 1)>>,
                                  <<PARAMETERS, IF decode THEN json[2] ELSE Undef>>,
                                  <<CALL, IF call \in {Str(<<"true">>), Str(<<"false">>)}
                                          THEN Bool(call = Str(<<"true">>)) ELSE Undef>> >>)]
    ELSE [err |-> "none", val |-> Obj(<<>>)]

\* parsePathObject that rebuilds a valid path object from its three fields
parsePathObject_Rebuilt(obj) ==
    IF isValidPathObject(obj)
    THEN [err |-> "none",
          val |-> Obj(<< <<PATH, Get(obj, PATH)>>, <<PARAMETERS, Get(obj, PARAMETERS)>>,
                         <<CALL, Get(obj, CALL)>>, <<SUPPORTSNESTED, Bool(TRUE)>> >>)]
    ELSE parsePathObject_Untagged(obj)

\* parsePathObject: [err, val], err "syntax" when JSON.parse throws
parsePathObject(obj) ==
    IF isValidPathObject(obj)
    THEN [err |-> "none", val |-> SetKey(obj, SUPPORTSNESTED, Bool(TRUE))]
    ELSE IF isShortHand(obj)
    THEN LET elems == Split(SubSeq(Pay(obj), 2, Len(Pay(obj)) - 1), ";")
             path == Elem(elems, 1)
             params == Elem(elems, 2)
             call == Elem(elems, 3)
             decode == Truthy(params) /\ Len(Pay(params)) > 0
             json == JSONParse(Pay(params))
         IN  IF decode /\ ~json[1]
             THEN [err |-> "syntax", val |-> Undef]
             ELSE [err |-> "none",
                   val |-> Obj(<< <<PATH, path>>,
                                  <<PARAMETERS, IF decode THEN json[2] ELSE Undef>>,
                                  <<CALL, IF call \in {Str(<<"true">>), Str(<<"false">>)}
                                          THEN Bool(call = Str(<<"true">>)) ELSE Undef>> >>)]
    ELSE [err |-> "none", val |-> Obj(<<>>)]

\* getDef: obj === undefined ? def : obj
getDef(obj, def) == IF Tag(obj) = "undefined" THEN def ELSE obj

\* the declared parameter count: resolved.length of a function,
\* resolved.prototype.constructor.length of a class (the class itself)
requiredLength(resolved) == Pay(resolved).length

\* (obj.parameters || []).length
providedLength(obj) ==
    IF Truthy(Get(obj, PARAMETERS)) THEN Len(Pay(Get(obj, PARAMETERS))) ELSE 0

\* pathObjectExpressesSymbol without the test for an undefined symbol
pathObjectExpressesSymbol_NoUndefinedTest(obj, resolved) ==
    IF ~isCallable(resolved) /\ Truthy(getDef(Get(obj, CALL), Bool(FALSE)))
    THEN "notcallable"
    ELSE IF /\ isCallable(resolved) /\ Truthy(getDef(Get(obj, CALL), Bool(FALSE)))
            /\ Truthy(getDef(Get(obj, CALL), Bool(TRUE)))
            /\ providedLength(obj) # requiredLength(resolved)
    THEN "arity"
    ELSE "none"

\* pathObjectExpressesSymbol with call defaulting to true in the test for a
\* symbol that is not callable
pathObjectExpressesSymbol_CallDefaultsTrue(obj, resolved) ==
    IF Tag(resolved) = "undefined" THEN "unresolved"
    ELSE IF ~isCallable(resolved) /\ Truthy(getDef(Get(obj, CALL), Bool(TRUE)))
    THEN "notcallable"
    ELSE IF /\ isCallable(resolved) /\ Truthy(getDef(Get(obj, CALL), Bool(FALSE)))
            /\ Truthy(getDef(Get(obj, CALL), Bool(TRUE)))
            /\ providedLength(obj) # requiredLength(resolved)
    THEN "arity"
    ELSE "none"

\* pathObjectExpressesSymbol with the arity test made whatever the call flag
pathObjectExpressesSymbol_ArityAlways(obj, resolved) ==
    IF Tag(resolved) = "undefined" THEN "unresolved"
    ELSE IF ~isCallable(resolved) /\ Truthy(getDef(Get(obj, CALL), Bool(FALSE)))
    THEN "notcallable"
    ELSE IF isCallable(resolved) /\ providedLength(obj) # requiredLength(resolved)
    THEN "arity"
    ELSE "none"

\* pathObjectExpressesSymbol: the error it throws, "none" when it returns true
pathObjectExpressesSymbol(obj, resolved) ==
    IF Tag(resolved) = "undefined" THEN "unresolved"
    ELSE IF ~isCallable(resolved) /\ Truthy(getDef(Get(obj, CALL), Bool(FALSE)))
    THEN "notcallable"
    ELSE IF /\ isCallable(resolved) /\ Truthy(getDef(Get(obj, CALL), Bool(FALSE)))
            /\ Truthy(getDef(Get(obj, CALL), Bool(TRUE)))
            /\ providedLength(obj) # requiredLength(resolved)
    THEN "arity"
    ELSE "none"

(***************************************************************************)
(* The callables of the data map: what a call or a construction returns.   *)
(***************************************************************************)
\* String(v) and Number(v) on the numbers, strings and undefined of the model
ToStr(v) ==
    CASE Tag(v) = "str" -> Pay(v)
      [] Tag(v) = "num" -> IndexKey(Pay(v))
      [] OTHER -> <<Tag(v)>>
ToNum(v) ==
    CASE Tag(v) = "num" -> v
      [] Tag(v) = "str" /\ \A i \in 1..Len(Pay(v)) : Pay(v)[i] \in Digits ->
            Num(DigitsValue(Pay(v)))
      [] OTHER -> NaN

\* a + b
Plus(a, b) ==
    IF Tag(a) = "num" /\ Tag(b) = "num" THEN Num(Pay(a) + Pay(b))
    ELSE IF Tag(a) = "str" \/ Tag(b) = "str" THEN Str(ToStr(a) \o ToStr(b))
    ELSE NaN

\* the argument i of a call: undefined when it was not passed
Arg(args, i) == IF i <= Len(args) THEN args[i] ELSE Undef

Apply(target, how, args) ==
    LET name == Pay(target).name
    IN  CASE how = "call" /\ name = "f" -> Plus(Arg(args, 1), Arg(args, 2))
          [] how = "call" /\ name = "inner" -> Str(<<"7">>)
          [] how = "call" /\ name = "outer" -> Plus(ToNum(Arg(args, 1)), Num(1))
          [] how = "call" /\ name = "d" -> Str(<<"{", "x", "}">>)
          [] how = "call" /\ name = "g" -> Num(1)
          [] how = "new" /\ name = "C" -> Obj(<< <<(<<"n">>), Arg(args, 1)>> >>)
          [] OTHER -> Obj(<<>>)

(***************************************************************************)
(* tryMakeReferenceable and fill.  A result of fill is                     *)
(*   [err, val, calls, inp]: the error thrown ("none" if it returns), the  *)
(*   value returned, the targets invoked in order, and the input as the    *)
(*   call leaves it (fill assigns into the arrays it walks).               *)
(***************************************************************************)
RECURSIVE fill(_, _, _, _), filled(_, _, _, _, _)
RECURSIVE tryMakeReferenceable(_, _, _), expressed(_, _, _, _), resolveNode(_, _, _)
RECURSIVE fillArray(_, _, _, _, _, _), arrayElement(_, _, _, _, _, _, _)
RECURSIVE fillEntries(_, _, _, _, _, _, _, _), entryValue(_, _, _, _, _, _, _, _, _)

\* what tryMakeReferenceable answers: the error it throws, isReferenceable,
\* what getReference does ("resolved", "call" or "new"), obj.parameters as the
\* call leaves it, and the targets invoked while the parameters were filled
Referenceable(e, is, how, ps, cs) ==
    [err |-> e, isReferenceable |-> is, how |-> how, parameters |-> ps, calls |-> cs]

\* tryMakeReferenceable once the parameters are processed, r being the result
\* of fill on them
withParameters(resolved, r) ==
    IF r.err # "none" THEN Referenceable(r.err, FALSE, "none", r.inp, r.calls)
    ELSE Referenceable("none", TRUE, IF isFunction(resolved) THEN "call" ELSE "new",
                       r.val, r.calls)

\* tryMakeReferenceable from pathObjectExpressesSymbol on, e being its outcome
expressed(obj, resolved, data, e) ==
    IF e # "none" THEN Referenceable(e, FALSE, "none", Get(obj, PARAMETERS), <<>>)
    ELSE IF ~isCallable(resolved)
    THEN Referenceable("none", TRUE, "resolved", Get(obj, PARAMETERS), <<>>)
    ELSE IF ~Truthy(getDef(Get(obj, CALL), Bool(TRUE)))
    THEN Referenceable("none", TRUE, "resolved", Get(obj, PARAMETERS), <<>>)
    ELSE IF /\ Truthy(Get(obj, SUPPORTSNESTED))
            /\ Truthy(Get(obj, PARAMETERS))
            /\ Len(Pay(Get(obj, PARAMETERS))) > 0
    THEN withParameters(resolved, fill(Get(obj, PARAMETERS), data, {}, <<>>))
    ELSE Referenceable("none", TRUE, IF isFunction(resolved) THEN "call" ELSE "new",
                       Get(obj, PARAMETERS), <<>>)

tryMakeReferenceable(obj, resolved, data) ==
    IF ~isValidPathObject(obj)
    THEN Referenceable("none", FALSE, "none", Get(obj, PARAMETERS), <<>>)
    ELSE expressed(obj, resolved, data, pathObjectExpressesSymbol(obj, resolved))

\* a node as a call on it leaves it: the parameters array of a structured
\* descriptor holds what fill assigned into it
nodeAfter(v, t) ==
    IF isValidPathObject(v) /\ KeyPos(Pay(v), PARAMETERS) # 0
    THEN SetKey(v, PARAMETERS, t.parameters) ELSE v

\* (obj.parameters || []) once tryMakeReferenceable has returned
arguments(t) == IF Truthy(t.parameters) THEN Pay(t.parameters) ELSE <<>>

\* getReference that invokes the target before the nested parameters are
\* resolved
getReference_TargetFirst(v, resolved, t) ==
    IF t.err # "none" \/ ~t.isReferenceable
    THEN [err |-> t.err, isReferenceable |-> FALSE, val |-> Undef,
          calls |-> t.calls, inp |-> nodeAfter(v, t)]
    ELSE IF t.how = "resolved"
    THEN [err |-> "none", isReferenceable |-> TRUE, val |-> resolved,
          calls |-> t.calls, inp |-> nodeAfter(v, t)]
    ELSE [err |-> "none", isReferenceable |-> TRUE,
          val |-> Apply(resolved, t.how, arguments(t)),
          calls |-> <<[target |-> resolved, how |-> t.how, args |-> arguments(t)]>>
                    \o t.calls,
          inp |-> nodeAfter(v, t)]

\* await getReference() on the answer t of tryMakeReferenceable:
\* [err, isReferenceable, val, calls, inp]
getReference(v, resolved, t) ==
    IF t.err # "none" \/ ~t.isReferenceable
    THEN [err |-> t.err, isReferenceable |-> FALSE, val |-> Undef,
          calls |-> t.calls, inp |-> nodeAfter(v, t)]
    ELSE IF t.how = "resolved"
    THEN [err |-> "none", isReferenceable |-> TRUE, val |-> resolved,
          calls |-> t.calls, inp |-> nodeAfter(v, t)]
    ELSE [err |-> "none", isReferenceable |-> TRUE,
          val |-> Apply(resolved, t.how, arguments(t)),
          calls |-> Append(t.calls,
                           [target |-> resolved, how |-> t.how, args |-> arguments(t)]),
          inp |-> nodeAfter(v, t)]

\* the reference r looked up again in the data map when it is a compact
\* descriptor of a defined value
again(r, data) ==
    IF /\ r.err = "none" /\ r.isReferenceable /\ isShortHand(r.val)
       /\ Tag(tryResolveDotPath(Str(Split(SubSeq(Pay(r.val), 2, Len(Pay(r.val)) - 1),
                                          ";")[1]), data)) # "undefined"
    THEN [r EXCEPT !.val = tryResolveDotPath(
                               Str(Split(SubSeq(Pay(r.val), 2, Len(Pay(r.val)) - 1), ";")[1]),
                               data)]
    ELSE r

\* resolveParsed that passes the value it obtained through the data map again
resolveParsed_Reexamined(v, obj, path, data) ==
    again(getReference(v, tryResolveDotPath(path, data),
                       tryMakeReferenceable(obj, tryResolveDotPath(path, data), data)),
          data)

\* tryResolveDotPath, tryMakeReferenceable and getReference on the parsed obj
resolveParsed(v, obj, path, data) ==
    getReference(v, tryResolveDotPath(path, data),
                 tryMakeReferenceable(obj, tryResolveDotPath(path, data), data))

\* the path looked up: parsed.path at the root of fill (pathOr undefined),
\* parsed.path || v for the value v of a mapping entry
pathToResolve(p, pathOr) == IF Truthy(Get(p.val, PATH)) THEN Get(p.val, PATH) ELSE pathOr

\* the outcome p of parsePathObject(v) resolved, or its error
parsed(v, p, pathOr, data) ==
    IF p.err # "none"
    THEN [err |-> p.err, isReferenceable |-> FALSE, val |-> Undef, calls |-> <<>>, inp |-> v]
    ELSE resolveParsed(v, p.val, pathToResolve(p, pathOr), data)

\* parsePathObject, tryResolveDotPath, tryMakeReferenceable and getReference on
\* the node v, as fill does at its root and for the value of a mapping entry
resolveNode(v, pathOr, data) == parsed(v, parsePathObject(v), pathOr, data)

\* the array case of fill from element i on
fillArray(elems, i, data, ignoredPaths, currentPath, calls) ==
    IF i > Len(elems)
    THEN [err |-> "none", val |-> Arr(elems), calls |-> calls, inp |-> Arr(elems)]
    ELSE IF Join(Append(currentPath, IndexKey(i - 1)), ".") \in ignoredPaths
    THEN fillArray(elems, i + 1, data, ignoredPaths, currentPath, calls)
    ELSE arrayElement(elems, i, data, ignoredPaths, currentPath, calls,
                      fill(elems[i], data, ignoredPaths, currentPath))

\* input[i] = r, r the result of fill on element i with the index popped off
\* currentPath
arrayElement(elems, i, data, ignoredPaths, currentPath, calls, r) ==
    IF r.err # "none"
    THEN [err |-> r.err, val |-> Undef, calls |-> calls \o r.calls,
          inp |-> Arr([elems EXCEPT ![i] = r.inp])]
    ELSE fillArray([elems EXCEPT ![i] = r.val], i + 1, data, ignoredPaths, currentPath,
                   calls \o r.calls)

\* the mapping case of fill from entry i on: out the entries resolved so far,
\* seen the entries of the input as they are left
fillEntries(entries, i, data, ignoredPaths, currentPath, calls, out, seen) ==
    IF i > Len(entries)
    THEN [err |-> "none", val |-> Obj(out), calls |-> calls, inp |-> Obj(seen)]
    ELSE IF Join(Append(currentPath, entries[i][1]), ".") \in ignoredPaths
    THEN fillEntries(entries, i + 1, data, ignoredPaths, currentPath, calls,
                     Append(out, entries[i]), seen)
    ELSE entryValue(entries, i, data, ignoredPaths, currentPath, calls, out, seen,
                    resolveNode(entries[i][2], entries[i][2], data))

\* the value of entry i: d when the entry is referenceable (or failed), else
\* fill on the value
entryOr(d, r) == IF d.err # "none" \/ d.isReferenceable THEN d ELSE r

entryDone(entries, i, data, ignoredPaths, currentPath, calls, out, seen, r) ==
    IF r.err # "none"
    THEN [err |-> r.err, val |-> Undef, calls |-> calls \o r.calls,
          inp |-> Obj([seen EXCEPT ![i] = <<entries[i][1], r.inp>>])]
    ELSE fillEntries(entries, i + 1, data, ignoredPaths, currentPath,
                     calls \o r.calls, Append(out, <<entries[i][1], r.val>>),
                     [seen EXCEPT ![i] = <<entries[i][1], r.inp>>])

entryValue(entries, i, data, ignoredPaths, currentPath, calls, out, seen, d) ==
    entryDone(entries, i, data, ignoredPaths, currentPath, calls, out, seen,
              entryOr(d, fill(entries[i][2], data, ignoredPaths,
                              Append(currentPath, entries[i][1]))))

\* fill once its root node is resolved to d
filled(input, data, ignoredPaths, currentPath, d) ==
    IF d.err # "none" \/ d.isReferenceable
    THEN [err |-> d.err, val |-> d.val, calls |-> d.calls, inp |-> d.inp]
    ELSE IF TypeOf(input) = "string"
    THEN [err |-> "none", val |-> input, calls |-> <<>>, inp |-> input]
    ELSE IF IsArray(input)
    THEN fillArray(Pay(input), 1, data, ignoredPaths, currentPath, <<>>)
    ELSE IF Tag(input) # "obj"
    THEN [err |-> "type", val |-> Undef, calls |-> <<>>, inp |-> input]
    ELSE fillEntries(Pay(input), 1, data, ignoredPaths, currentPath, <<>>, <<>>,
                     Pay(input))

fill(input, data, ignoredPaths, currentPath) ==
    IF TypeOf(input) \notin {"string", "object"}
    THEN [err |-> "none", val |-> input, calls |-> <<>>, inp |-> input]
    ELSE filled(input, data, ignoredPaths, currentPath, resolveNode(input, Undef, data))

(***************************************************************************)
(* The inputs of the model                                                 *)
(***************************************************************************)
MaxParams == 2
MaxWidth == 2

K(w) == <<w>>
SeqsUpTo(S, n) == UNION {[1..m -> S] : m \in 0..n}

\* the data map: plain values, a nested mapping, arrow functions f (x, y) =>
\* x + y, inner () => '7', outer n => Number(n) + 1, d () => '{x}', the
\* function declaration g and the class C { constructor(n) { this.n = n } };
\* s, m and the result of d have the shape of a descriptor
DataMap ==
    Obj(<< <<K("x"), Num(5)>>,
           <<K("z"), Num(0)>>,
           <<K("s"), Str(<<"{", "x", "}">>)>>,
           <<K("k"), Obj(<< <<K("y"), Num(1)>> >>)>>,
           <<K("m"), Obj(<< <<PATH, Str(K("x"))>> >>)>>,
           <<K("f"), Fn("f", {}, 2)>>,
           <<K("inner"), Fn("inner", {}, 0)>>,
           <<K("outer"), Fn("outer", {}, 1)>>,
           <<K("d"), Fn("d", {}, 0)>>,
           <<K("g"), Fn("g", {"prototype", "arguments"}, 0)>>,
           <<K("C"), Fn("C", {"prototype"}, 1)>> >>)

PathTexts == {K("x"), K("f"), K("C"), K("g"), K("outer"), K("nope"), <<"k", ".", "y">>,
              <<"k", ".", "nope">>, K("s"), K("d"), K("m")}
ParamTexts == {<<>>, <<"[", "1", "]">>, <<"[", "1", ",", "2", "]">>,
               <<"[", "\"", "{", "x", "}", "\"", "]">>,
               <<"[", "1", ";", "2", "]">>, <<"[", "a", "]">>, K("true")}
CallTexts == {<<>>, K("true"), K("false")}

\* '{' + fields.join(';') + '}'
Brace(fields) == <<"{">> \o Join(fields, ";") \o <<"}">>

CompactStrings ==
    {Str(Brace(<<p>>)) : p \in PathTexts}
    \cup {Str(Brace(<<p, q>>)) : p \in PathTexts, q \in ParamTexts}
    \cup {Str(Brace(<<p, q, c>>)) : p \in PathTexts, q \in ParamTexts, c \in CallTexts}

OtherStrings ==
    {Str(<<>>), Str(K("a")), Str(<<"{", "x">>), Str(<<"x", "}">>), Str(<<"{", "}">>),
     Str(<<"{", ";", "x", "}">>), Str(<<"{", "x", "\n", "}">>),
     Str(<<"{", "x", ";", "1", "}">>)}

Scalars == {Undef, Null, Num(0), Num(1), Bool(TRUE), Bool(FALSE), NaN}

\* the elements of the parameters of the structured descriptors
ParamLeaves ==
    {Num(1), Str(<<"{", "x", "}">>), Str(<<"{", "nope", "}">>),
     Obj(<< <<PATH, Str(K("inner"))>> >>), Str(<<"{", "s", "}">>)}

CallFlags == {Undef, Null, Bool(TRUE), Bool(FALSE)}

\* { path, parameters, call }, a key being left out when its value is undefined
Structured(path, parameters, call) ==
    Obj(<< <<PATH, path>> >>
        \o (IF Tag(parameters) = "undefined" THEN <<>> ELSE << <<PARAMETERS, parameters>> >>)
        \o (IF Tag(call) = "undefined" THEN <<>> ELSE << <<CALL, call>> >>))

StructuredDescriptors ==
    {Structured(Str(p), ps, c) :
        p \in PathTexts,
        ps \in {Undef} \cup {Arr(a) : a \in SeqsUpTo(ParamLeaves, MaxParams)},
        c \in CallFlags}

\* mappings that carry descriptor keys and are no valid path object
OtherMappings ==
    {Structured(Num(1), Undef, Undef), Structured(Str(K("x")), Num(1), Undef),
     Structured(Str(K("x")), Undef, Str(K("true"))), Structured(Str(<<>>), Undef, Undef)}

Leaves == Scalars \cup OtherStrings \cup CompactStrings \cup StructuredDescriptors
          \cup OtherMappings

\* the values the containers of the model are made of
Items ==
    {Num(1), Undef, Null, Str(K("a")), Str(Brace(<<K("x")>>)), Str(Brace(<<K("nope")>>)),
     Str(Brace(<<K("f"), <<"[", "1", ",", "2", "]">> >>)),
     Str(Brace(<<K("f"), <<>>, K("false")>>)),
     Str(Brace(<<K("x"), <<>>, K("true")>>)),
     Structured(Str(K("outer")), Arr(<<Obj(<< <<PATH, Str(K("inner"))>> >>)>>), Undef),
     Str(Brace(<<K("s")>>)), Str(Brace(<<K("d")>>))}

KeyNames == <<K("a"), K("b"), K("c"), K("e")>>

Arrays(S, n) == {Arr(a) : a \in SeqsUpTo(S, n)}
Mappings(S, n) ==
    {Obj([i \in 1..Len(a) |-> <<KeyNames[i], a[i]>>]) : a \in SeqsUpTo(S, n)}

Containers == Arrays(Items, MaxWidth) \cup Mappings(Items, MaxWidth)
Nested == Arrays(Containers, 1) \cup Mappings(Containers, 1)

IgnoredSets == {{K("a")}, {K("0")}, {<<"a", ".", "0">>}, {<<"0", ".", "a">>},
                {<<"a", ".", "a">>}, {<<"0", ".", "0">>}, {K("b"), K("1")}}

\* data maps { k: v } of one key, read by the input '{' + k + '}'
KeyTexts == {K("x"), K("true"), <<"x", "}">>, <<"a", ".", "b">>, <<"a", ";", "b">>}
KeyValues == {Undef, Null, Num(0), Num(5), Bool(FALSE), Str(<<>>), Str(<<"{", "x", "}">>),
              Arr(<<>>), Obj(<< <<K("y"), Num(1)>> >>), Arr(<<Str(<<"{", "x", "}">>)>>),
              Obj(<< <<PATH, Str(K("x"))>> >>)}
KeyScenarios ==
    {<<Str(Brace(<<k>>)), Obj(<< <<k, v>> >>), {}>> : k \in KeyTexts, v \in KeyValues}

\* the descriptor of the round trips, compact and structured
RoundTrips ==
    {Str(Brace(<< <<"a", ".", "b">>, <<"[", "1", ",", "2", "]">>, K("true")>>)),
     Structured(Str(<<"a", ".", "b">>), Arr(<<Num(1), Num(2)>>), Bool(TRUE)),
     SetKey(Structured(Str(K("x")), Undef, Undef), K("note"), Num(1)),
     SetKey(Structured(Str(K("g")), Arr(<<>>), Undef), SUPPORTSNESTED, Bool(FALSE))}

\* the calls of the model: <<input, data, ignoredPaths>>
Scenarios ==
    ((Leaves \cup RoundTrips \cup Containers \cup Nested) \X {DataMap} \X {{}})
    \cup ((Containers \cup Nested) \X {DataMap} \X IgnoredSets)
    \cup KeyScenarios

(***************************************************************************)
(* The state machine: a caller holds an input tree and applies             *)
(* parsePathObject or fill to it.                                          *)
(***************************************************************************)
VARIABLES input, data, ignoredPaths, before, result, calls, phase

vars == <<input, data, ignoredPaths, before, result, calls, phase>>

Init ==
    /\ \E sc \in Scenarios :
          /\ input = sc[1]
          /\ data = sc[2]
          /\ ignoredPaths = sc[3]
    /\ before = input
    /\ result = [err |-> "none", val |-> Undef]
    /\ calls = <<>>
    /\ phase = "ready"

\* parsePathObject(input)
Parse ==
    /\ phase = "ready"
    /\ result' = parsePathObject(input)
    /\ phase' = "parsed"
    /\ UNCHANGED <<input, data, ignoredPaths, before, calls>>

\* the call of fill ends with r
returns(r) ==
    /\ before' = input
    /\ input' = r.inp
    /\ result' = [err |-> r.err, val |-> r.val]
    /\ calls' = r.calls

\* await fill({ input, data, ignoredPaths }), a first and a second time
Fill ==
    /\ phase \in {"ready", "filled"}
    /\ returns(fill(input, data, ignoredPaths, <<>>))
    /\ phase' = IF phase = "ready" THEN "filled" ELSE "refilled"
    /\ UNCHANGED <<data, ignoredPaths>>

Next == Parse \/ Fill

Spec == Init /\ [][Next]_vars

(***************************************************************************)
(* The vocabulary of the claims                                            *)
(***************************************************************************)
NoError == "none"

\* the value is a number, a boolean, null or undefined
IsPlain(v) == Tag(v) \in {"undefined", "null", "num", "nan", "bool"}

IsContainer(v) == Tag(v) = "arr" \/ (Tag(v) = "obj" /\ ~isValidPathObject(v))

\* the children of an array or a mapping, in order
Child(v, i) == IF Tag(v) = "arr" THEN Pay(v)[i] ELSE Pay(v)[i][2]

\* the positions of the tree v that are v itself or lie inside arrays and
\* mappings that are no descriptor, as sequences of child numbers
RECURSIVE Positions(_)
Positions(v) ==
    {<<>>} \cup
    (IF IsContainer(v)
     THEN UNION {{<<i>> \o q : q \in Positions(Child(v, i))} : i \in 1..Len(Pay(v))}
     ELSE {})

RECURSIVE At(_, _)
At(v, p) == IF p = <<>> THEN v ELSE At(Child(v, p[1]), Tail(p))

\* the tree is made of arrays, mappings and plain values only
RECURSIVE OnlyPlain(_)
OnlyPlain(v) ==
    \/ IsPlain(v)
    \/ /\ IsContainer(v)
       /\ \A i \in 1..Len(Pay(v)) : OnlyPlain(Child(v, i))

\* the compact grammar "{" path [";" json-array-or-empty] [";" ("true"|"false")] "}"
WellFormedCompact(s) ==
    /\ Len(s) >= 3 /\ s[1] = "{" /\ s[Len(s)] = "}"
    /\ LET fields == Split(SubSeq(s, 2, Len(s) - 1), ";")
       IN  /\ Len(fields) <= 3
           /\ fields[1] # <<>> /\ \A i \in 1..Len(fields[1]) : fields[1][i] # "\n"
           /\ Len(fields) >= 2 =>
                 \/ fields[2] = <<>>
                 \/ JSONParse(fields[2])[1] /\ Tag(JSONParse(fields[2])[2]) = "arr"
           /\ Len(fields) = 3 => fields[3] \in {<<>>, <<"true">>, <<"false">>}

\* C1: every target fill invokes is passed as many parameters as it declares,
\* and fill('{f;[1]}', M) fails with the arity error while fill('{f;[1,2]}', M)
\* yields 3
C1_ArityOfEveryInvocation ==
    phase = "filled" =>
        /\ \A i \in 1..Len(calls) :
              Len(calls[i].args) = Pay(calls[i].target).length
        /\ before = Str(<<"{", "f", ";", "[", "1", "]", "}">>) =>
              result.err = "arity" /\ calls = <<>>
        /\ before = Str(<<"{", "f", ";", "[", "1", ",", "2", "]", "}">>) =>
              result = [err |-> NoError, val |-> Num(3)]

\* C2: a tree made of arrays, mappings, numbers, booleans, null and undefined
\* only is returned by fill as it is, without failure
C2_PlainValuesUnchanged ==
    (phase = "filled" /\ OnlyPlain(before)) =>
        result = [err |-> NoError, val |-> before]

\* C3: parsePathObject never fails, and fill passes a string that is no
\* well-formed compact descriptor through as the literal string
C3_ParseNeverFails ==
    /\ phase = "parsed" => result.err = NoError
    /\ (phase = "filled" /\ Tag(before) = "str" /\ ~WellFormedCompact(Pay(before))) =>
          result = [err |-> NoError, val |-> before]

\* the node is a descriptor: parsePathObject gives a valid path object for it
IsDescriptor(v) ==
    /\ Tag(v) \in {"str", "obj"}
    /\ parsePathObject(v).err = NoError
    /\ isValidPathObject(parsePathObject(v).val)
PathOf(v) == Get(parsePathObject(v).val, PATH)
CallOf(v) == Get(parsePathObject(v).val, CALL)
ParamsOf(v) ==
    IF Tag(Get(parsePathObject(v).val, PARAMETERS)) = "arr"
    THEN Pay(Get(parsePathObject(v).val, PARAMETERS)) ELSE <<>>
TargetOf(v) == tryResolveDotPath(PathOf(v), data)

\* a class: a callable with a prototype that is no function declaration
IsClass(t) == Pay(t).props = {"prototype"}
HowOf(t) == IF IsClass(t) THEN "new" ELSE "call"

\* a node whose resolution neither fails nor invokes anything
Inert(v) ==
    \/ IsPlain(v) /\ Tag(v) # "null"
    \/ Tag(v) = "str" /\ ~isShortHand(v)
    \/ IsContainer(v)

\* every node of the input but the one at p is inert
Alone(p) == \A q \in Positions(before) \ {p} : Inert(At(before, q))

\* the call of a first fill with the default ignoredPaths has ended
Filled == phase = "filled" /\ ignoredPaths = {}

\* C4: a descriptor whose path resolves to no defined value makes fill fail,
\* with the unresolved-path error when nothing else of the input can fail, at
\* the root, inside arrays and mappings, and inside the parameters of a
\* structured descriptor whose target is invoked
C4_UnresolvedPathFails ==
    Filled =>
        \A p \in Positions(before) :
            LET n == At(before, p)
            IN  IsDescriptor(n) =>
                 /\ Tag(TargetOf(n)) = "undefined" =>
                       /\ result.err # NoError
                       /\ Alone(p) => result.err = "unresolved"
                 /\ ( /\ Tag(n) = "obj"
                      /\ isCallable(TargetOf(n))
                      /\ CallOf(n) \in {Undef, Bool(TRUE)}
                      /\ \E i \in 1..Len(ParamsOf(n)) :
                            /\ IsDescriptor(ParamsOf(n)[i])
                            /\ Tag(TargetOf(ParamsOf(n)[i])) = "undefined" )
                    => result.err # NoError

C4_Witness ==
    /\ Filled
    /\ result.err = "unresolved"
    /\ \E p \in Positions(before) :
          /\ Len(p) = 2
          /\ IsDescriptor(At(before, p))
          /\ Tag(TargetOf(At(before, p))) = "undefined"
          /\ Alone(p)

\* C5 as stated: a descriptor with call true or false whose target is defined
\* and not invocable makes fill fail with the non-invocable error
C5_ExplicitCallNonInvocableFails ==
    Filled =>
        \A p \in Positions(before) :
            LET n == At(before, p)
            IN  ( /\ IsDescriptor(n)
                  /\ Tag(TargetOf(n)) # "undefined" /\ ~isCallable(TargetOf(n))
                  /\ CallOf(n) \in {Bool(TRUE), Bool(FALSE)} )
                => /\ result.err # NoError
                   /\ Alone(p) => result.err = "notcallable"

\* C5 amended: with call true a defined non-invocable target makes fill fail
\* with the non-invocable error; with call false, null or unset the target is
\* substituted as it is, without error
C5_CallTrueNonInvocableFails ==
    Filled =>
        \A p \in Positions(before) :
            LET n == At(before, p)
            IN  ( /\ IsDescriptor(n)
                  /\ Tag(TargetOf(n)) # "undefined" /\ ~isCallable(TargetOf(n)) )
                => IF CallOf(n) = Bool(TRUE)
                   THEN /\ result.err # NoError
                        /\ Alone(p) => result.err = "notcallable"
                   ELSE /\ result.err = NoError => At(result.val, p) = TargetOf(n)
                        /\ Alone(p) => result.err = NoError

C5_Witness ==
    /\ Filled
    /\ \E p \in Positions(before) :
          /\ p # <<>>
          /\ IsDescriptor(At(before, p))
          /\ CallOf(At(before, p)) = Bool(TRUE)
          /\ TargetOf(At(before, p)) = Num(5)
          /\ Alone(p)
    /\ result.err = "notcallable"

\* the parameters of the descriptor are plain values, or it is a compact one
PlainParams(n) ==
    Tag(n) = "str" \/ \A i \in 1..Len(ParamsOf(n)) : IsPlain(ParamsOf(n)[i])

Invocation(t, args) == [target |-> t, how |-> HowOf(t), args |-> args]
Invoked(e) == \E i \in 1..Len(calls) : calls[i] = e

\* C6: with call unset an invocable target is invoked with the parameter list
\* (a function called, a class constructed) and the result substituted, and a
\* target that is not invocable is substituted as it is, without error
C6_CallUnsetDefault ==
    Filled =>
        \A p \in Positions(before) :
            LET n == At(before, p)
                t == TargetOf(n)
            IN  (IsDescriptor(n) /\ Tag(CallOf(n)) = "undefined" /\ Tag(t) # "undefined")
                => IF isCallable(t)
                   THEN /\ (result.err = NoError /\ PlainParams(n)) =>
                              /\ At(result.val, p) = Apply(t, HowOf(t), ParamsOf(n))
                              /\ Invoked(Invocation(t, ParamsOf(n)))
                        /\ (Alone(p) /\ PlainParams(n)
                            /\ Len(ParamsOf(n)) = Pay(t).length) => result.err = NoError
                   ELSE /\ result.err = NoError => At(result.val, p) = t
                        /\ Alone(p) => result.err = NoError

\* fill('{C;[1]}', M) constructs the class, inside a mapping too
C6_Witness ==
    /\ Filled
    /\ before = Str(<<"{", "C", ";", "[", "1", "]", "}">>)
    /\ result = [err |-> NoError, val |-> Obj(<< <<K("n"), Num(1)>> >>)]
    /\ calls = <<[target |-> Fn("C", {"prototype"}, 1), how |-> "new", args |-> <<Num(1)>>]>>

\* C7 as stated: for every key k of the data map with a defined value v that
\* is not callable, fill('{' + k + '}', M) returns v
C7_EveryKeyReturnsItsValue ==
    Filled =>
        \A i \in 1..Len(Pay(data)) :
            ( /\ before = Str(Brace(<<Pay(data)[i][1]>>))
              /\ ~isCallable(Pay(data)[i][2])
              /\ Tag(Pay(data)[i][2]) # "undefined" )
            => result = [err |-> NoError, val |-> Pay(data)[i][2]]

\* a key that is one segment of a dot path and the path field of a compact
\* descriptor: not empty, without '.', ';' and newline
IsSegment(k) == k # <<>> /\ \A i \in 1..Len(k) : k[i] \notin {".", ";", "\n"}

\* C7 amended: for every key k of the data map that is not empty and holds no
\* '.', ';' or newline, with a value v that is neither callable nor undefined
\* (0, false, '' and null included), fill('{' + k + '}', M) returns v
C7_SegmentKeyReturnsItsValue ==
    Filled =>
        \A i \in 1..Len(Pay(data)) :
            ( /\ before = Str(Brace(<<Pay(data)[i][1]>>))
              /\ IsSegment(Pay(data)[i][1])
              /\ ~isCallable(Pay(data)[i][2])
              /\ Tag(Pay(data)[i][2]) # "undefined" )
            => result = [err |-> NoError, val |-> Pay(data)[i][2]]

C7_Witness ==
    /\ Filled
    /\ data = Obj(<< <<K("x"), Null>> >>)
    /\ before = Str(<<"{", "x", "}">>)
    /\ result = [err |-> NoError, val |-> Null]

\* C8: a descriptor with call false whose target is invocable is replaced by
\* the target itself; nothing is invoked and no error is raised for it,
\* whatever the number of its parameters
C8_CallFalseReturnsTarget ==
    Filled =>
        \A p \in Positions(before) :
            LET n == At(before, p)
            IN  (IsDescriptor(n) /\ CallOf(n) = Bool(FALSE) /\ isCallable(TargetOf(n)))
                => /\ result.err = NoError => At(result.val, p) = TargetOf(n)
                   /\ Alone(p) => result.err = NoError /\ calls = <<>>

\* call false with one parameter for the two declared by f
C8_Witness ==
    /\ Filled
    /\ before = Str(<<"{", "f", ";", "[", "1", "]", ";", "false", "}">>)
    /\ result = [err |-> NoError, val |-> Fn("f", {}, 2)]
    /\ calls = <<>>

\* the keys from the root of v down to position p
RECURSIVE KeysAlong(_, _)
KeysAlong(v, p) ==
    IF p = <<>> THEN <<>>
    ELSE <<IF Tag(v) = "arr" THEN IndexKey(p[1] - 1) ELSE Pay(v)[p[1]][1]>>
         \o KeysAlong(Child(v, p[1]), Tail(p))

\* the dot-joined path of p or of a position above it is listed in ignoredPaths
IsIgnored(p) ==
    \E m \in 1..Len(p) : Join(KeysAlong(before, SubSeq(p, 1, m)), ".") \in ignoredPaths

\* C9: the value at a key or index whose dot-joined path from the root is
\* listed in ignoredPaths is in the output as it was; nothing is invoked and
\* no error raised for it; the positions not listed are resolved
C9_IgnoredPathsVerbatim ==
    phase = "filled" =>
        /\ result.err = NoError =>
              \A p \in Positions(before) :
                  IsIgnored(p) => At(result.val, p) = At(before, p)
        /\ (\A p \in Positions(before) : ~IsIgnored(p) => Inert(At(before, p)))
              => result.err = NoError /\ calls = <<>>
        /\ ( /\ before = Obj(<< <<K("a"), Str(<<"{", "x", "}">>)>>,
                                <<K("b"), Str(<<"{", "x", "}">>)>> >>)
             /\ ignoredPaths = {K("a")} )
           => result.val = Obj(<< <<K("a"), Str(<<"{", "x", "}">>)>>, <<K("b"), Num(5)>> >>)

\* what the elements of the parameters of the structured descriptors denote
\* in DataMap
ResolvedParam(v) ==
    CASE v = Str(<<"{", "x", "}">>) -> Num(5)
      [] v = Obj(<< <<PATH, Str(K("inner"))>> >>) -> Str(<<"7">>)
      [] v = Str(<<"{", "s", "}">>) -> Str(<<"{", "x", "}">>)
      [] OTHER -> v

InnerOuter == Structured(Str(K("outer")), Arr(<<Obj(<< <<PATH, Str(K("inner"))>> >>)>>), Undef)

\* C10: the target of a structured descriptor is invoked with its parameters
\* resolved against the data map, the nested targets being invoked first; the
\* target of a compact descriptor is invoked with its decoded parameters as
\* they are; fill({path: 'outer', parameters: [{path: 'inner'}]}, M) yields 8
C10_NestedParametersStructuredOnly ==
    (Filled /\ data = DataMap /\ result.err = NoError) =>
        /\ \A p \in Positions(before) :
              LET n == At(before, p)
                  ps == ParamsOf(n)
              IN  ( /\ IsDescriptor(n)
                    /\ isCallable(TargetOf(n))
                    /\ CallOf(n) \in {Undef, Bool(TRUE)} )
                  => Invoked(Invocation(TargetOf(n),
                                        IF Tag(n) = "obj"
                                        THEN [i \in 1..Len(ps) |-> ResolvedParam(ps[i])]
                                        ELSE ps))
        /\ before = InnerOuter =>
              /\ result.val = Num(8)
              /\ calls = <<Invocation(Fn("inner", {}, 0), <<>>),
                           Invocation(Fn("outer", {}, 1), <<Str(<<"7">>)>>)>>

C10_Witness ==
    /\ Filled
    /\ before = InnerOuter
    /\ result = [err |-> NoError, val |-> Num(8)]

\* the text between the braces of a compact descriptor, split on ';'
FieldsOf(v) == Split(SubSeq(Pay(v), 2, Len(Pay(v)) - 1), ";")

ABCompact == Str(Brace(<< <<"a", ".", "b">>, <<"[", "1", ",", "2", "]">>, K("true")>>))
ABStructured == Structured(Str(<<"a", ".", "b">>), Arr(<<Num(1), Num(2)>>), Bool(TRUE))

\* C11: of a string parsePathObject takes as a compact descriptor the result
\* has the text before the first ';' as path, parameters absent (second field
\* empty or left out) or the array the second field decodes to, never a value
\* that is no array, and call the boolean of a third field 'true' or 'false',
\* unset otherwise; parsePathObject('{a.b;[1,2];true}') yields
\* {path: 'a.b', parameters: [1, 2], call: true}
C11_CompactFieldsDecoded ==
    (phase = "parsed" /\ isShortHand(input) /\ result.err = NoError) =>
        /\ Get(result.val, PATH) = Str(FieldsOf(input)[1])
        /\ Tag(Get(result.val, PARAMETERS)) \in {"undefined", "arr"}
        /\ Tag(Get(result.val, PARAMETERS)) = "undefined" <=>
              (Len(FieldsOf(input)) < 2 \/ FieldsOf(input)[2] = <<>>)
        /\ Tag(Get(result.val, PARAMETERS)) = "arr" =>
              JSONParse(FieldsOf(input)[2]) = <<TRUE, Get(result.val, PARAMETERS)>>
        /\ Get(result.val, CALL) =
              (IF Len(FieldsOf(input)) >= 3 /\ FieldsOf(input)[3] \in {K("true"), K("false")}
               THEN Bool(FieldsOf(input)[3] = K("true")) ELSE Undef)
        /\ input = ABCompact => result.val = ABStructured

\* the own keys of a mapping
Keys(v) == {Pay(v)[i][1] : i \in 1..Len(Pay(v))}

\* C12 as stated: parsePathObject returns a valid structured descriptor as it
\* is, with the fields it has and no other
C12_StructuredReturnedUnchanged ==
    (phase = "parsed" /\ Tag(input) = "obj" /\ isValidPathObject(input)) =>
        result = [err |-> NoError, val |-> input]

\* C12 amended: parsePathObject returns a valid structured descriptor with
\* every field it has, at its value, and the field supportsNested set to true,
\* and nothing else; parsing the result again gives the result
C12_StructuredReturnedTagged ==
    (phase = "parsed" /\ Tag(input) = "obj" /\ isValidPathObject(input)) =>
        /\ result.err = NoError
        /\ Keys(result.val) = Keys(input) \cup {SUPPORTSNESTED}
        /\ \A k \in Keys(input) \ {SUPPORTSNESTED} : Get(result.val, k) = Get(input, k)
        /\ Get(result.val, SUPPORTSNESTED) = Bool(TRUE)
        /\ parsePathObject(result.val) = result

C12_Witness ==
    /\ phase = "parsed"
    /\ input = ABStructured
    /\ result = [err |-> NoError, val |-> SetKey(ABStructured, SUPPORTSNESTED, Bool(TRUE))]

\* the target of the descriptor is to be invoked: it is invocable and call is
\* true or unset
InvokedAt(n) == isCallable(TargetOf(n)) /\ CallOf(n) \in {Undef, Bool(TRUE)}

\* the parameters the target of the descriptor is to receive
ArgsOf(n) ==
    IF Tag(n) = "obj"
    THEN [i \in 1..Len(ParamsOf(n)) |-> ResolvedParam(ParamsOf(n)[i])]
    ELSE ParamsOf(n)

\* the value the descriptor stands for: its target, or what invoking it gives
Denoted(n) ==
    IF InvokedAt(n) THEN Apply(TargetOf(n), HowOf(TargetOf(n)), ArgsOf(n)) ELSE TargetOf(n)

\* the targets the descriptors of the tree v are to invoke, in source order:
\* children left to right, the nested parameters of a structured descriptor
\* before its own target
RECURSIVE Order(_), OrderAll(_)
Order(v) ==
    IF IsDescriptor(v)
    THEN IF InvokedAt(v)
         THEN (IF Tag(v) = "obj" THEN OrderAll(ParamsOf(v)) ELSE <<>>) \o <<TargetOf(v)>>
         ELSE <<>>
    ELSE IF IsContainer(v)
    THEN OrderAll([i \in 1..Len(Pay(v)) |-> Child(v, i)])
    ELSE <<>>
OrderAll(vs) == IF vs = <<>> THEN <<>> ELSE Order(Head(vs)) \o OrderAll(Tail(vs))

\* the targets invoked, in the order of their invocation
Targets == [i \in 1..Len(calls) |-> calls[i].target]

\* C13: what a descriptor obtains from the data map, a value or the result of
\* an invocation, is in the output as it is, also when it is a string or a
\* mapping of the shape of a descriptor or holds one, and no lookup or
\* invocation is made for it: fill invokes the targets of the descriptors of
\* the input and no other
C13_DataValuesNotReexamined ==
    (Filled /\ result.err = NoError) =>
        /\ \A p \in Positions(before) :
              IsDescriptor(At(before, p)) => At(result.val, p) = Denoted(At(before, p))
        /\ Len(calls) = Len(Order(before))

\* s is '{x}' and d returns '{x}': neither is resolved to 5
C13_Witness ==
    /\ Filled
    /\ before = Obj(<< <<K("a"), Str(Brace(<<K("s")>>))>>, <<K("b"), Str(Brace(<<K("d")>>))>> >>)
    /\ result = [err |-> NoError,
                 val |-> Obj(<< <<K("a"), Str(<<"{", "x", "}">>)>>,
                                <<K("b"), Str(<<"{", "x", "}">>)>> >>)]
    /\ calls = <<Invocation(Fn("d", {}, 0), <<>>)>>

InnerOuterThenD == Arr(<<InnerOuter, Str(Brace(<<K("d")>>))>>)

C15_ParametersBeforeArity ==
    Filled =>
        \A p \in Positions(before) :
            LET n == At(before, p)
                ps == ParamsOf(n)
            IN  ( /\ Tag(n) = "obj" /\ IsDescriptor(n) /\ InvokedAt(n)
                  /\ Len(ps) # Pay(TargetOf(n)).length
                  /\ Alone(p) )
                => IF \E i \in 1..Len(ps) :
                         IsDescriptor(ps[i]) /\ Tag(TargetOf(ps[i])) = "undefined"
                   THEN result.err = "unresolved"
                   ELSE \A i \in 1..Len(ps) :
                            (IsDescriptor(ps[i]) /\ InvokedAt(ps[i]))
                            => Invoked(Invocation(TargetOf(ps[i]), ParamsOf(ps[i])))

\* C16: a call of fill, whether it returns or fails, leaves every array and
\* mapping of the input, the parameters of its structured descriptors
\* included, as it was, so that a second call sees the descriptors of the first
C16_InputLeftUnchanged ==
    phase \in {"filled", "refilled"} => input = before

====
